---- MODULE Spec2Model ----
(***************************************************************************)
(* A model of the earnings-strangle library: the brokerage connector      *)
(* (earnings/broker.py), the option-chain builder (option_chain.py), the   *)
(* expected-move calculator (expected_move.py) and the strangle builder    *)
(* (strangle.py).                                                          *)
(*                                                                         *)
(* Money is counted in ticks of half a cent, so that the mid of two        *)
(* whole-cent prices is a whole number: Cents(c) is c cents, Dollars(d)    *)
(* is d dollars.  Python floats are modelled by the exact rationals they   *)
(* approximate; where binary rounding decides an outcome (round() on a     *)
(* value that lies halfway between two cents) both outcomes are allowed.   *)
(*                                                                         *)
(* A pandas DataFrame is a sequence of rows, each row carrying its index   *)
(* label in the field "index"; positions are counted from 0 as in pandas.  *)
(***************************************************************************)
EXTENDS Integers, Sequences, FiniteSets, TLC

Cents(c) == 2 * c
Dollars(d) == 200 * d

Abs(x) == IF x < 0 THEN -x ELSE x

Range(s) == {s[i] : i \in 1..Len(s)}

\* pandas .iloc / positional access: position p counted from 0
At(s, p) == s[p + 1]

RECURSIVE SelectSeq2(_, _)
\* boolean-mask selection frame[mask]: keeps rows and their index labels
SelectSeq2(s, mask) ==
    IF s = <<>> THEN <<>>
    ELSE IF mask[1] THEN <<Head(s)>> \o SelectSeq2(Tail(s), Tail(mask))
         ELSE SelectSeq2(Tail(s), Tail(mask))

Mask(s, P(_)) == [i \in 1..Len(s) |-> P(s[i])]

Filter(s, P(_)) == SelectSeq2(s, Mask(s, P))

\* Series.argmin(): the position (from 0) of the first smallest value
ArgMin(vals) ==
    CHOOSE p \in 0..(Len(vals) - 1) :
        /\ \A q \in 0..(Len(vals) - 1) : At(vals, p) <= At(vals, q)
        /\ \A q \in 0..(p - 1) : At(vals, q) > At(vals, p)

\* reset_index(drop=True): labels become the positions 0..n-1
ResetIndex(t) == [i \in 1..Len(t) |-> [t[i] EXCEPT !.index = i - 1]]

\* a missing value; the one nullable column the model carries is delta,
\* a string token that is either NaN or a number's text
NaN == "NaN"

\* DataFrame.dropna(): drops every row holding a missing value; the rows
\* that stay keep their index labels
DropNa(t) == Filter(t, LAMBDA r : r.delta # NaN)

(***************************************************************************)
(* The brokerage's raw option chain (the JSON of get_option_chain).        *)
(* callExpDateMap and putExpDateMap are ordered maps: sequences of         *)
(* entries [key, strikes], key = <<date, dte>> standing for the text       *)
(* 'date:dte' with dte a decimal string (a sequence of digits), strikes    *)
(* the contracts of that expiration in the brokerage's order, one per      *)
(* strike (each is the single element of the payload's one-element list).  *)
(* Dates are day numbers.                                                  *)
(***************************************************************************)

\* int(text) of a decimal string
RECURSIVE AsInt(_)
AsInt(digits) ==
    IF digits = <<>> THEN 0
    ELSE 10 * AsInt(SubSeq(digits, 1, Len(digits) - 1)) + digits[Len(digits)]

\* str(n) for 0 <= n <= 99
AsStr(n) == IF n < 10 THEN <<n>> ELSE <<n \div 10, n % 10>>

DateOf(dte) == 18800 + dte

KeyOf(dte) == <<DateOf(dte), AsStr(dte)>>

\* dict lookup map[key]; the caller guards on HasKey (KeyError otherwise)
HasKey(map, key) == \E i \in 1..Len(map) : map[i].key = key

Lookup(map, key) == (CHOOSE e \in Range(map) : e.key = key).strikes

(***************************************************************************)
(* OptionChain._expirations / _select_expiration / build.  self is the     *)
(* OptionChain object: [underlying_price, calls, puts].                    *)
(***************************************************************************)

\* a slip: the two labels swapped
ExpirationLabelSwapped(expiration_type) ==
    IF expiration_type = "R" THEN "WEEKLY" ELSE "MONTHLY"

\* the label of one expiration from its brokerage type code
ExpirationLabel(expiration_type) ==
    IF expiration_type = "R" THEN "MONTHLY" ELSE "WEEKLY"

\* the expiration-descriptor table: rows [index, date, dte, type]
Expirations(self, weeklies) ==
    LET all == [i \in 1..Len(self.calls) |->
                  [index |-> i - 1,
                   date  |-> self.calls[i].key[1],
                   dte   |-> self.calls[i].key[2],
                   type  |-> ExpirationLabel(
                                self.calls[i].strikes[1].expirationType)]]
    IN  IF ~weeklies THEN Filter(all, LAMBDA e : e.type # "WEEKLY") ELSE all

Front == [tok |-> "front", n |-> 0]
Back == [tok |-> "back", n |-> 0]
Target(n) == [tok |-> "int", n |-> n]

\* a slip: the signed difference instead of the absolute one
ClosestDteSigned(expirations, n) ==
    ArgMin([i \in 1..Len(expirations) |-> AsInt(expirations[i].dte) - n])

\* expirations['dte'].astype(int).sub(dte).abs().argmin()
ClosestDte(expirations, n) ==
    ArgMin([i \in 1..Len(expirations) |-> Abs(AsInt(expirations[i].dte) - n)])

\* the result is [err, val]: val the composite key
SelectExpiration(self, dte, weeklies) ==
    LET expirations == Expirations(self, weeklies)
        pick(e) == [err |-> "none", val |-> <<e.date, e.dte>>]
        none(e) == [err |-> e, val |-> <<>>]
    IN  IF dte.tok = "front"
        THEN IF Len(expirations) < 1 THEN none("IndexError")
             ELSE pick(At(expirations, 0))
        ELSE IF dte.tok = "back"
        THEN IF Len(expirations) < 2 THEN none("IndexError")
             ELSE pick(At(expirations, 1))
        ELSE IF Len(expirations) < 1 THEN none("ValueError")
             ELSE pick(At(expirations, ClosestDte(expirations, dte.n)))

\* one contract of the payload as a row of the table
AsRow(c) ==
    [index              |-> 0,
     strike             |-> c.strikePrice,
     option_type        |-> c.putCall,
     bid                |-> c.bid,
     ask                |-> c.ask,
     delta              |-> c.delta,
     in_the_money       |-> c.inTheMoney,
     expiration_date    |-> c.expirationDate,
     days_to_expiration |-> c.daysToExpiration]

\* DataFrame(...).T.reset_index(): one row per strike, labelled 0..n-1
Frame(strikes) == [i \in 1..Len(strikes) |-> [AsRow(strikes[i]) EXCEPT !.index = i - 1]]

\* sort_values(by='strike'): every ordering of the rows by strike ascending;
\* the default sort is not stable, so rows of equal strike may come out in
\* either order
RECURSIVE SortedByStrike(_)
SortedByStrike(rows) ==
    IF rows = {} THEN {<<>>}
    ELSE LET least == {r \in rows : \A o \in rows : r.strike <= o.strike}
         IN  UNION {{<<r>> \o t : t \in SortedByStrike(rows \ {r})} : r \in least}

\* a slip: the in-the-money rows are never dropped
KeepAllRows(option_chain, in_the_money) == option_chain

\* if not in_the_money: keep the rows whose in-the-money flag is False
DropInTheMoney(option_chain, in_the_money) ==
    IF ~in_the_money
    THEN Filter(option_chain, LAMBDA r : r.in_the_money = FALSE)
    ELSE option_chain

\* the set of results [err, val] build can return
Build(self, dte, in_the_money, weeklies) ==
    LET sel == SelectExpiration(self, dte, weeklies)
        expiration_cycle == sel.val
        both == Frame(Lookup(self.calls, expiration_cycle))
                  \o Frame(Lookup(self.puts, expiration_cycle))
        kept == DropInTheMoney(both, in_the_money)
    IN  IF sel.err # "none" THEN {[err |-> sel.err, val |-> <<>>]}
        ELSE IF ~HasKey(self.puts, expiration_cycle)
        THEN {[err |-> "KeyError", val |-> <<>>]}
        ELSE {[err |-> "none", val |-> ResetIndex(t)] :
                 t \in SortedByStrike(Range(kept))}

(***************************************************************************)
(* Straddle (expected_move.py) and Strangle (strangle.py).  self is the    *)
(* object: the OptionChain fields plus option_chain and, for a Strangle,   *)
(* expected_move.                                                          *)
(***************************************************************************)

RECURSIVE Sum(_, _)
\* frame[column].sum(); column is "bid" or "ask"
Sum(t, column) ==
    IF t = <<>> THEN 0
    ELSE (IF column = "bid" THEN Head(t).bid ELSE Head(t).ask) + Sum(Tail(t), column)

\* the parameters of OptionChain.build
BuildParameters == {"dte", "in_the_money", "weeklies"}

\* self.build(dte, **keywords): a keyword build does not take is a TypeError
BuildWith(self, dte, keywords) ==
    IF ~(DOMAIN keywords \subseteq BuildParameters)
    THEN {[err |-> "TypeError", val |-> <<>>]}
    ELSE Build(self, dte, keywords.in_the_money, keywords.weeklies)

\* frame.loc[label]: the rows carrying that index label
Loc(t, label) == Filter(t, LAMBDA r : r.index = label)

\* Straddle._build: [err, val], val the straddle's rows
StraddleBuild(self) ==
    LET option_chain == self.option_chain
        dist == [i \in 1..Len(option_chain) |->
                    Abs(option_chain[i].strike - self.underlying_price)]
        idx_atm == ArgMin(dist)
        at_label == Loc(option_chain, idx_atm)
        atm_strike == at_label[1].strike
        straddle == Filter(option_chain, LAMBDA r : r.strike = atm_strike)
    IN  IF option_chain = <<>> THEN [err |-> "ValueError", val |-> <<>>]
        ELSE IF at_label = <<>> THEN [err |-> "KeyError", val |-> <<>>]
        ELSE [err |-> "none", val |-> ResetIndex(straddle)]

\* round(x, 2) of x = n / d cents, in cents: the nearest whole number of
\* cents; halfway between two, the binary value of x decides, so either
RoundCents(n, d) ==
    LET lo == n \div d
        twice == 2 * (n % d)
    IN  IF twice < d THEN {lo}
        ELSE IF twice > d THEN {lo + 1}
        ELSE {lo, lo + 1}

\* a slip: the 1.25 multiplier left out
MoveOfMidPlain(mid) == {Cents(c) : c \in RoundCents(mid, 2)}

\* round(mid * 1.25, 2); mid is in ticks, so mid * 1.25 is mid * 5 / 8 cents
MoveOfMid(mid) == {Cents(c) : c \in RoundCents(5 * mid, 8)}

\* Straddle.expected_move: the set of outcomes [err, val]
ExpectedMove(self) ==
    LET built == StraddleBuild(self)
        straddle == built.val
        bid == Sum(straddle, "bid")
        ask == Sum(straddle, "ask")
        mid == (bid + ask) \div 2
    IN  IF built.err # "none" THEN {[err |-> built.err, val |-> 0]}
        ELSE {[err |-> "none", val |-> m] : m \in MoveOfMid(mid)}

\* a slip: the comparisons not strict
CoversExpectedMoveLoose(self, call_strike, put_strike, premium) ==
    LET top_break_even == call_strike + premium
        bottom_break_even == put_strike - premium
        top == self.underlying_price + self.expected_move
        bottom == self.underlying_price - self.expected_move
    IN  (top_break_even >= top) /\ (bottom_break_even <= bottom)

\* Strangle.covers_expected_move
CoversExpectedMove(self, call_strike, put_strike, premium) ==
    LET top_break_even == call_strike + premium
        bottom_break_even == put_strike - premium
        top == self.underlying_price + self.expected_move
        bottom == self.underlying_price - self.expected_move
    IN  (top_break_even > top) /\ (bottom_break_even < bottom)

Reverse(s) == [i \in 1..Len(s) |-> s[Len(s) + 1 - i]]

\* zip(calls['strike'], puts['strike']) stops with the shorter column
Min(a, b) == IF a < b THEN a ELSE b

\* the two-option frame of one pair: the puts at put_strike, then the calls
\* at call_strike
PairFrame(calls, puts, call_strike, put_strike) ==
    ResetIndex(Filter(puts, LAMBDA r : r.strike = put_strike)
                 \o Filter(calls, LAMBDA r : r.strike = call_strike))

\* (bid + ask) / 2 of a frame, in ticks
Premium(frame) == (Sum(frame, "bid") + Sum(frame, "ask")) \div 2

\* the pairs the loop appends to strangles, in the order of the walk
Qualifying(self, calls, puts, min_premium) ==
    LET n == Min(Len(calls), Len(puts))
        frame(i) == PairFrame(calls, puts, calls[i].strike, puts[i].strike)
        qualifies(i) ==
            /\ ~(Premium(frame(i)) < min_premium)
            /\ CoversExpectedMove(self, calls[i].strike, puts[i].strike,
                                  Premium(frame(i)))
    IN  SelectSeq2([i \in 1..n |-> frame(i)], [i \in 1..n |-> qualifies(i)])

\* a slip: the first qualifying strangle
ChosenFirst(strangles) == strangles[1]

\* strangle = strangles[-1]
Chosen(strangles) == strangles[Len(strangles)]

\* Strangle._build: the set of results; the empty frame stands for None
StrangleBuild(self, min_premium) ==
    LET call_rows == {r \in Range(self.option_chain) : r.option_type = "CALL"}
        put_rows == {r \in Range(self.option_chain) : r.option_type = "PUT"}
    IN  {LET strangles == Qualifying(self, calls, Reverse(puts), min_premium)
         IN  IF strangles = <<>> THEN <<>> ELSE Chosen(strangles) :
            calls \in SortedByStrike(call_rows),
            puts \in SortedByStrike(put_rows)}

(***************************************************************************)
(* Broker: connect and get_option_chain.  The token file utils/token is    *)
(* "absent", "valid" or "corrupt" (present but unusable).                  *)
(***************************************************************************)

\* a slip: the token of a successful login is not written to TOKEN_PATH
LoginFlowUnsaved(login_ok) ==
    IF login_ok
    THEN [err |-> "none", token |-> "absent", login |-> TRUE]
    ELSE [err |-> "LoginError", token |-> "absent", login |-> TRUE]

\* tda.auth.client_from_login_flow: on success it writes the token to
\* TOKEN_PATH and returns the client; on failure it raises and writes nothing
LoginFlow(login_ok) ==
    IF login_ok
    THEN [err |-> "none", token |-> "valid", login |-> TRUE]
    ELSE [err |-> "LoginError", token |-> "absent", login |-> TRUE]

\* Broker.connect: the outcome [err, token, login] of one connection attempt
\* with the token file in state token; login_ok is whether an interactive
\* login, if one runs, goes through
Connect(token, login_ok) ==
    IF token = "valid"
    THEN [err |-> "none", token |-> token, login |-> FALSE]
    ELSE IF token = "absent"        \* except FileNotFoundError
    THEN LoginFlow(login_ok)
    ELSE [err |-> "TokenError", token |-> token, login |-> FALSE]

\* Broker.get_option_chain: the served data, or the failed assertion
GetOptionChain(served) ==
    IF served.status = "SUCCESS"
    THEN [err |-> "none", val |-> served]
    ELSE [err |-> "AssertionError", val |-> served]

\* OptionChain.__init__ after the connection: the object's fields
OptionChainFields(raw_data) ==
    [underlying_price |-> raw_data.underlyingPrice,
     calls            |-> raw_data.callExpDateMap,
     puts             |-> raw_data.putExpDateMap]

(***************************************************************************)
(* Constructors.  Each gives the set of outcomes [err, obj, token,         *)
(* fetches]: the error raised ("none" if none), the constructed object,    *)
(* the token file afterwards and the number of option-chain requests sent  *)
(* to the brokerage.                                                       *)
(***************************************************************************)

NoObject == [alive |-> FALSE]

Failed(e, token, fetches) ==
    [err |-> e, obj |-> NoObject, token |-> token, fetches |-> fetches]

Made(obj, token, fetches) ==
    [err |-> "none", obj |-> [alive |-> TRUE] @@ obj, token |-> token,
     fetches |-> fetches]

\* OptionChain.__init__: Broker.__init__ connects, then the raw chain is
\* fetched and its parts are kept
OptionChainNew(token, login_ok, served) ==
    LET c == Connect(token, login_ok)
        got == GetOptionChain(served)
    IN  IF c.err # "none" THEN Failed(c.err, c.token, 0)
        ELSE IF got.err # "none" THEN Failed(got.err, c.token, 1)
        ELSE Made(OptionChainFields(got.val), c.token, 1)

\* Straddle.__init__; supplied says whether option_chain is a DataFrame
StraddleNew(token, login_ok, served, dte, supplied, option_chain) ==
    LET base == OptionChainNew(token, login_ok, served)
        with(t) == [base EXCEPT !.obj = [option_chain |-> t] @@ base.obj]
    IN  IF base.err # "none" THEN {base}
        ELSE IF supplied THEN {with(option_chain)}
        ELSE {IF b.err # "none"
              THEN Failed(b.err, base.token, base.fetches)
              ELSE with(DropNa(b.val)) :
                 b \in BuildWith(base.obj, dte,
                                 [option_types |-> "all", in_the_money |-> TRUE,
                                  weeklies |-> TRUE])}

\* Strangle.__init__; served is what the brokerage serves to the Strangle's
\* own request, served_next what it serves to the Straddle's.  The field
\* straddle of an outcome is the Straddle object the constructor made.
StrangleNew(token, login_ok, served, served_next, dte) ==
    LET base == OptionChainNew(token, login_ok, served)
        early(o) == o @@ [straddle |-> NoObject]
        finish(option_chain, sd) ==
            {(IF em.err # "none"
              THEN Failed(em.err, sd.token, base.fetches + sd.fetches)
              ELSE Made([option_chain |-> option_chain, expected_move |-> em.val]
                           @@ base.obj,
                        sd.token, base.fetches + sd.fetches))
               @@ [straddle |-> sd.obj] :
                em \in ExpectedMove(sd.obj)}
        straddles(option_chain) ==
            UNION {IF sd.err # "none"
                   THEN {early(Failed(sd.err, sd.token, base.fetches + sd.fetches))}
                   ELSE finish(option_chain, sd) :
                      sd \in StraddleNew(base.token, login_ok, served_next, dte,
                                         TRUE, option_chain)}
    IN  IF base.err # "none" THEN {early(base)}
        ELSE UNION {IF b.err # "none"
                    THEN {early(Failed(b.err, base.token, base.fetches))}
                    ELSE straddles(DropNa(b.val)) :
                       b \in BuildWith(base.obj, dte,
                                       [in_the_money |-> FALSE, weeklies |-> TRUE])}

(***************************************************************************)
(* The environment: what the brokerage may serve.                          *)
(***************************************************************************)

\* the strike ladder has NStrikes strikes, 5 dollars apart, from 95 dollars
NStrikes == 4

StrikeAt(i) == Dollars(90 + 5 * i)

\* at most MaxMissing contracts of a chain come with a missing greek
MaxMissing == 1

\* at most MaxFlagged contracts carry an in-the-money flag that disagrees
\* with the side of the underlying price their strike is on
MaxFlagged == 1

\* at most MaxExpirations expirations in a chain
MaxExpirations == 4

Prices == {Dollars(100), Cents(10250), Dollars(104)}

Quotes == {[bid |-> Cents(200), ask |-> Cents(220)],
           [bid |-> Cents(180), ask |-> Cents(200)],
           [bid |-> Cents(45), ask |-> Cents(55)]}

Dtes == <<3, 10, 45, 90>>

Types == {"CALL", "PUT"}

ContractIds == Types \X (1..NStrikes)

\* prices fall off with the distance of the strike from the underlying
QuoteAt(base, strike, price) ==
    LET rank == Abs(strike - price) \div Dollars(5)
    IN  [bid |-> Cents((base.bid \div 2) \div (rank + 1)),
         ask |-> Cents((base.ask \div 2) \div (rank + 1))]

InTheMoney(type, strike, price) ==
    IF type = "CALL" THEN strike < price ELSE strike > price

Contract(type, i, price, base, missing, flagged, exp) ==
    LET q == QuoteAt(base[type], StrikeAt(i), price)
    IN  [putCall          |-> type,
         strikePrice      |-> StrikeAt(i),
         bid              |-> q.bid,
         ask              |-> q.ask,
         delta            |-> IF <<type, i>> \in missing THEN NaN ELSE "0.5",
         inTheMoney       |-> (InTheMoney(type, StrikeAt(i), price)
                                 # (<<type, i>> \in flagged)),
         expirationType   |-> exp.type,
         expirationDate   |-> DateOf(exp.dte),
         daysToExpiration |-> exp.dte]

ExpDateMap(type, exps, price, base, missing, flagged) ==
    [e \in 1..Len(exps) |->
        [key     |-> KeyOf(exps[e].dte),
         strikes |-> [i \in 1..NStrikes |->
                        Contract(type, i, price, base, missing, flagged, exps[e])]]]

RawChain(status, price, exps, base, missing, flagged) ==
    [status         |-> status,
     underlyingPrice |-> price,
     callExpDateMap |-> ExpDateMap("CALL", exps, price, base, missing, flagged),
     putExpDateMap  |-> ExpDateMap("PUT", exps, price, base, missing, flagged)]

\* chronological expiration lists: the dtes of a non-empty set of positions
\* of Dtes, each with a brokerage type code
RECURSIVE Ascending(_, _)
Ascending(picked, from) ==
    IF from > Len(Dtes) THEN <<>>
    ELSE IF from \in picked THEN <<Dtes[from]>> \o Ascending(picked, from + 1)
    ELSE Ascending(picked, from + 1)

ExpLists ==
    UNION {{[e \in 1..Len(Ascending(picked, 1)) |->
               [dte |-> Ascending(picked, 1)[e], type |-> code[e]]] :
            code \in [1..Cardinality(picked) -> {"R", "S"}]} :
           picked \in {P \in SUBSET (1..Len(Dtes)) :
                          P # {} /\ Cardinality(P) <= MaxExpirations}}

UpTo(n, S) == {X \in SUBSET S : Cardinality(X) <= n}

(***************************************************************************)
(* State.                                                                  *)
(***************************************************************************)
VARIABLES
    market,     \* what the brokerage will serve: the parameters of RawChain
    token,      \* the token file utils/token: "absent", "valid", "corrupt"
    chain,      \* an OptionChain object the caller has constructed
    straddle,   \* a Straddle object the caller has constructed
    strangle,   \* a Strangle object the caller has constructed
    call,       \* the call whose outcome the caller holds:
                \* [op, args, err, val, fetches], or NoCall
    log,        \* the connector constructions and the changes made to the
                \* token file from outside, in order
    environ,    \* os.environ: the variables the program reads
    executor,   \* an Executor or Account object the caller has constructed
    requests    \* the requests sent to the brokerage's trading and account
                \* endpoints and to the screener site, in order

vars == <<market, token, chain, straddle, strangle, call, log,
          environ, executor, requests>>

\* the state of the order desk, the account reader and the scanner
desk == <<environ, executor, requests>>

Served(m) == RawChain(m.status, m.price, m.exps, m.base, m.missing, m.flagged)

NoArgs == [none |-> TRUE]

\* an environment with none of the variables set
Unset == "unset"

NoEnviron == [TD_ACCOUNT_ID |-> Unset, FINVIZ_EMAIL |-> Unset,
              FINVIZ_PASSWORD |-> Unset]

NoCall == [op |-> "none", args |-> NoArgs, err |-> "none", val |-> <<>>,
           fetches |-> 0]

Raised(op, args, e, n) ==
    [op |-> op, args |-> args, err |-> e, val |-> <<>>, fetches |-> n]

Returned(op, args, v, n) ==
    [op |-> op, args |-> args, err |-> "none", val |-> v, fetches |-> n]

(***************************************************************************)
(* The option-chain builder on its own: a caller constructs an             *)
(* OptionChain and calls _expirations, _select_expiration and build.       *)
(***************************************************************************)

DteArgs == {Front, Back, Target(0), Target(24), Target(40)}

ChainMarkets ==
    {[status |-> st, price |-> p, exps |-> x,
      base |-> [t \in Types |-> CHOOSE q \in Quotes : q.bid = Cents(200)],
      missing |-> {}, flagged |-> f] :
        st \in {"SUCCESS", "FAILED"}, p \in {Dollars(100), Dollars(104)},
        x \in ExpLists,
        f \in UpTo(MaxFlagged, ContractIds)}

InitChain ==
    /\ market \in ChainMarkets
    /\ token = "valid"
    /\ chain = NoObject
    /\ straddle = NoObject
    /\ strangle = NoObject
    /\ call = NoCall
    /\ log = <<>>
    /\ environ = NoEnviron
    /\ executor = NoObject
    /\ requests = <<>>

\* the caller constructs an OptionChain
NewOptionChain ==
    /\ call = NoCall
    /\ ~chain.alive /\ ~straddle.alive /\ ~strangle.alive
    /\ \E login_ok \in BOOLEAN :
         LET made == OptionChainNew(token, login_ok, Served(market))
         IN  /\ token' = made.token
             /\ chain' = IF made.err # "none" THEN chain ELSE made.obj
             /\ call' = IF made.err # "none"
                        THEN Raised("OptionChain", NoArgs, made.err, made.fetches)
                        ELSE Returned("OptionChain", NoArgs, <<>>, made.fetches)
    /\ UNCHANGED <<market, straddle, strangle, log, desk>>

CallExpirations ==
    /\ call = NoCall
    /\ chain.alive
    /\ \E weeklies \in BOOLEAN :
         call' = Returned("_expirations", [weeklies |-> weeklies],
                          Expirations(chain, weeklies), 0)
    /\ UNCHANGED <<market, token, chain, straddle, strangle, log, desk>>

CallSelectExpiration ==
    /\ call = NoCall
    /\ chain.alive
    /\ \E dte \in DteArgs, weeklies \in BOOLEAN :
         LET r == SelectExpiration(chain, dte, weeklies)
             args == [dte |-> dte, weeklies |-> weeklies]
         IN  call' = IF r.err # "none"
                     THEN Raised("_select_expiration", args, r.err, 0)
                     ELSE Returned("_select_expiration", args, r.val, 0)
    /\ UNCHANGED <<market, token, chain, straddle, strangle, log, desk>>

CallBuild ==
    /\ call = NoCall
    /\ chain.alive
    /\ \E dte \in DteArgs, in_the_money \in BOOLEAN, weeklies \in BOOLEAN :
         \E r \in Build(chain, dte, in_the_money, weeklies) :
            LET args == [dte |-> dte, in_the_money |-> in_the_money,
                         weeklies |-> weeklies]
            IN  call' = IF r.err # "none"
                        THEN Raised("build", args, r.err, 0)
                        ELSE Returned("build", args, r.val, 0)
    /\ UNCHANGED <<market, token, chain, straddle, strangle, log, desk>>

\* the caller is done with the outcome of its last call
Return ==
    /\ call # NoCall
    /\ call' = NoCall
    /\ UNCHANGED <<market, token, chain, straddle, strangle, log, desk>>

NextChain ==
    \/ NewOptionChain
    \/ Return
    \/ CallExpirations
    \/ CallSelectExpiration
    \/ CallBuild

SpecChain == InitChain /\ [][NextChain]_vars

(***************************************************************************)
(* The expected-move calculator and the strangle builder: a caller         *)
(* constructs a Strangle, or a Straddle with or without a table of its     *)
(* own, and calls their methods.                                           *)
(***************************************************************************)

\* the expirations of the chains served here: a weekly and a monthly
TwoExpirations == <<[dte |-> 3, type |-> "S"], [dte |-> 45, type |-> "R"]>>

Bases ==
    {[CALL |-> c, PUT |-> p] : c, p \in Quotes}

Markets ==
    {[status |-> "SUCCESS", price |-> p, exps |-> TwoExpirations,
      base |-> b, missing |-> m, flagged |-> {}] :
        p \in Prices, b \in Bases, m \in UpTo(MaxMissing, ContractIds)}

StrangleDtes == {Target(0), Target(40)}

MinPremiums == {Cents(50), Dollars(1), Dollars(3)}

CallStrikes == {Dollars(105), Dollars(108)}

PutStrikes == {Dollars(92), Dollars(95)}

Premiums == {0, Dollars(2)}

Init ==
    /\ market \in Markets
    /\ token = "valid"
    /\ chain = NoObject
    /\ straddle = NoObject
    /\ strangle = NoObject
    /\ call = NoCall
    /\ log = <<>>
    /\ environ = NoEnviron
    /\ executor = NoObject
    /\ requests = <<>>

\* Strangle(symbol, dte); the underlying may trade at another price by the
\* time the Straddle inside sends its own request
NewStrangle ==
    /\ call = NoCall
    /\ ~chain.alive /\ ~straddle.alive /\ ~strangle.alive
    /\ \E dte \in StrangleDtes, moved \in Prices, login_ok \in BOOLEAN :
         LET later == [market EXCEPT !.price = moved]
             args == [dte |-> dte]
         IN  \E made \in StrangleNew(token, login_ok, Served(market),
                                     Served(later), dte) :
                /\ market' = IF made.fetches >= 2 THEN later ELSE market
                /\ token' = made.token
                /\ straddle' = made.straddle
                /\ strangle' = made.obj
                /\ call' = IF made.err # "none"
                           THEN Raised("Strangle", args, made.err, made.fetches)
                           ELSE Returned("Strangle", args, <<>>, made.fetches)
    /\ UNCHANGED <<chain, log, desk>>

\* Straddle(symbol, dte, option_chain) with a table the caller built with
\* its OptionChain, dropping the rows with missing values or not
NewStraddleWithTable ==
    /\ call = NoCall
    /\ chain.alive /\ ~straddle.alive
    /\ \E in_the_money \in BOOLEAN, dropped \in BOOLEAN, login_ok \in BOOLEAN :
         \E b \in Build(chain, Target(0), in_the_money, TRUE) :
            /\ b.err = "none"
            /\ LET option_chain == IF dropped THEN DropNa(b.val) ELSE b.val
                   args == [supplied |-> TRUE]
               IN  \E made \in StraddleNew(token, login_ok, Served(market),
                                           Target(0), TRUE, option_chain) :
                      /\ token' = made.token
                      /\ straddle' = made.obj
                      /\ call' = IF made.err # "none"
                                 THEN Raised("Straddle", args, made.err, made.fetches)
                                 ELSE Returned("Straddle", args, <<>>, made.fetches)
    /\ UNCHANGED <<market, chain, strangle, log, desk>>

\* Straddle(symbol, dte)
NewStraddleAlone ==
    /\ call = NoCall
    /\ ~chain.alive /\ ~straddle.alive /\ ~strangle.alive
    /\ \E dte \in StrangleDtes, login_ok \in BOOLEAN :
         \E made \in StraddleNew(token, login_ok, Served(market), dte, FALSE, <<>>) :
            /\ token' = made.token
            /\ straddle' = made.obj
            /\ call' = IF made.err # "none"
                       THEN Raised("Straddle", [supplied |-> FALSE], made.err,
                                   made.fetches)
                       ELSE Returned("Straddle", [supplied |-> FALSE], <<>>,
                                     made.fetches)
    /\ UNCHANGED <<market, chain, strangle, log, desk>>

\* straddle._build()
CallStraddleBuild ==
    /\ call = NoCall
    /\ straddle.alive
    /\ LET r == StraddleBuild(straddle)
       IN  call' = IF r.err # "none"
                   THEN Raised("Straddle._build", NoArgs, r.err, 0)
                   ELSE Returned("Straddle._build", NoArgs, r.val, 0)
    /\ UNCHANGED <<market, token, chain, straddle, strangle, log, desk>>

\* straddle.expected_move
CallExpectedMove ==
    /\ call = NoCall
    /\ straddle.alive
    /\ \E r \in ExpectedMove(straddle) :
         call' = IF r.err # "none"
                 THEN Raised("expected_move", NoArgs, r.err, 0)
                 ELSE Returned("expected_move", NoArgs, <<r.val>>, 0)
    /\ UNCHANGED <<market, token, chain, straddle, strangle, log, desk>>

\* strangle.covers_expected_move(call_strike, put_strike, premium)
CallCoversExpectedMove ==
    /\ call = NoCall
    /\ strangle.alive
    /\ \E call_strike \in CallStrikes, put_strike \in PutStrikes,
          premium \in Premiums :
         call' = Returned("covers_expected_move",
                          [call_strike |-> call_strike, put_strike |-> put_strike,
                           premium |-> premium],
                          <<CoversExpectedMove(strangle, call_strike, put_strike,
                                               premium)>>, 0)
    /\ UNCHANGED <<market, token, chain, straddle, strangle, log, desk>>

\* strangle._build(min_premium)
CallStrangleBuild ==
    /\ call = NoCall
    /\ strangle.alive
    /\ \E min_premium \in MinPremiums :
         \E r \in StrangleBuild(strangle, min_premium) :
            call' = Returned("Strangle._build", [min_premium |-> min_premium], r, 0)
    /\ UNCHANGED <<market, token, chain, straddle, strangle, log, desk>>

Next ==
    \/ NewOptionChain
    \/ NewStrangle
    \/ NewStraddleWithTable
    \/ NewStraddleAlone
    \/ CallStraddleBuild
    \/ CallExpectedMove
    \/ CallCoversExpectedMove
    \/ CallStrangleBuild
    \/ Return

Spec == Init /\ [][Next]_vars

(***************************************************************************)
(* The connector on its own: connectors are constructed one after another  *)
(* while, from outside, the token file may be removed or damaged.          *)
(***************************************************************************)

\* at most MaxLog entries are logged
MaxLog == 4

InitBroker ==
    /\ market = CHOOSE m \in Markets :
                    /\ m.price = Dollars(100) /\ m.missing = {}
                    /\ \A t \in Types : m.base[t].bid = Cents(200)
    /\ token \in {"absent", "valid", "corrupt"}
    /\ chain = NoObject
    /\ straddle = NoObject
    /\ strangle = NoObject
    /\ call = NoCall
    /\ log = <<>>
    /\ environ = NoEnviron
    /\ executor = NoObject
    /\ requests = <<>>

\* Broker(): __init__ connects
NewBroker ==
    /\ Len(log) < MaxLog
    /\ \E login_ok \in BOOLEAN :
         LET c == Connect(token, login_ok)
         IN  /\ token' = c.token
             /\ log' = Append(log, [event |-> "Broker", before |-> token,
                                    login |-> c.login, err |-> c.err,
                                    after |-> c.token])
    /\ UNCHANGED <<market, chain, straddle, strangle, call, desk>>

\* somebody removes utils/token
TokenRemoved ==
    /\ Len(log) < MaxLog
    /\ token # "absent"
    /\ token' = "absent"
    /\ log' = Append(log, [event |-> "removed", before |-> token,
                           login |-> FALSE, err |-> "none", after |-> "absent"])
    /\ UNCHANGED <<market, chain, straddle, strangle, call, desk>>

\* utils/token is overwritten with something that is no token
TokenDamaged ==
    /\ Len(log) < MaxLog
    /\ token = "valid"
    /\ token' = "corrupt"
    /\ log' = Append(log, [event |-> "damaged", before |-> token,
                           login |-> FALSE, err |-> "none", after |-> "corrupt"])
    /\ UNCHANGED <<market, chain, straddle, strangle, call, desk>>

NextBroker ==
    \/ NewBroker
    \/ TokenRemoved
    \/ TokenDamaged

SpecBroker == InitBroker /\ [][NextBroker]_vars

\* C10: in any sequence of connector constructions the interactive login runs
\* during a construction iff no token file exists at that moment; a
\* successful login leaves the token at the fixed path, and the construction
\* that follows it authenticates from the file, without a login.
C10_LoginIffNoTokenFile ==
    /\ \A i \in 1..Len(log) :
          log[i].event = "Broker" =>
             /\ log[i].login <=> (log[i].before = "absent")
             /\ (log[i].login /\ log[i].err = "none") => log[i].after = "valid"
             /\ ~log[i].login => log[i].after = log[i].before
    /\ \A i \in 1..(Len(log) - 1) :
          (/\ log[i].event = "Broker" /\ log[i + 1].event = "Broker"
           /\ log[i].login /\ log[i].err = "none")
          => (/\ ~log[i + 1].login
              /\ log[i + 1].err = "none"
              /\ log[i + 1].before = "valid")
    /\ (log # <<>>) => token = log[Len(log)].after

\* a login ran and went through, and the next construction used the file;
\* before that a construction with a damaged file failed without a login
C10_Witness ==
    /\ Len(log) >= 3
    /\ \E i \in 1..(Len(log) - 1) :
          /\ log[i].event = "Broker" /\ log[i].login /\ log[i].err = "none"
          /\ log[i + 1].event = "Broker" /\ ~log[i + 1].login
    /\ \E i \in 1..Len(log) :
          /\ log[i].event = "Broker" /\ log[i].before = "corrupt"
          /\ ~log[i].login /\ log[i].err # "none"

(***************************************************************************)
(* Properties of the option-chain builder (checked under SpecChain).       *)
(***************************************************************************)

\* the brokerage's type code of the expiration a descriptor row came from
CodeOf(row) == chain.calls[row.index + 1].strikes[1].expirationType

\* the composite key of the expiration a descriptor row came from
KeyOfRow(row) == chain.calls[row.index + 1].key

DteOfRow(row) == AsInt(KeyOfRow(row)[2])

IsCall(op) == call # NoCall /\ call.op = op

\* C7: among the expirations left by the weeklies filter, _select_expiration
\* returns the key 'date:dte' of the first one for 'front', of the second one
\* for 'back', and otherwise of the first one among those whose days to
\* expiration are nearest the integer target; it fails only when there is no
\* such expiration.  With dtes 3, 10, 45, 90 and target 40 it selects 45.
C7_SelectExpiration ==
    IsCall("_select_expiration") =>
        LET left == Expirations(chain, call.args.weeklies)
            dte == call.args.dte
            gap(i) == Abs(DteOfRow(left[i]) - dte.n)
        IN  /\ dte.tok = "front" =>
                IF Len(left) >= 1
                THEN call.err = "none" /\ call.val = KeyOfRow(left[1])
                ELSE call.err # "none"
            /\ dte.tok = "back" =>
                IF Len(left) >= 2
                THEN call.err = "none" /\ call.val = KeyOfRow(left[2])
                ELSE call.err # "none"
            /\ dte.tok = "int" =>
                IF Len(left) >= 1
                THEN /\ call.err = "none"
                     /\ \E i \in 1..Len(left) :
                           /\ call.val = KeyOfRow(left[i])
                           /\ \A j \in 1..Len(left) : gap(i) <= gap(j)
                           /\ \A j \in 1..(i - 1) : gap(j) > gap(i)
                ELSE call.err # "none"
            /\ (/\ dte = Target(40)
                /\ [i \in 1..Len(left) |-> DteOfRow(left[i])] = <<3, 10, 45, 90>>)
               => call.val = KeyOf(45)

\* the example has been run: dtes 3, 10, 45, 90, target 40, 45 selected
C7_Witness ==
    /\ IsCall("_select_expiration")
    /\ call.err = "none"
    /\ call.args.dte = Target(40)
    /\ call.args.weeklies
    /\ [i \in 1..Len(chain.calls) |-> AsInt(chain.calls[i].key[2])]
          = <<3, 10, 45, 90>>
    /\ call.val = KeyOf(45)

\* a tie has been broken: 3 and 45 are both 21 days from the target 24
C7_TieReached ==
    /\ IsCall("_select_expiration")
    /\ call.args.dte = Target(24)
    /\ call.args.weeklies
    /\ [i \in 1..Len(chain.calls) |-> AsInt(chain.calls[i].key[2])] = <<3, 45>>
    /\ call.val = KeyOf(3)

\* C8 as stated: every expiration of the descriptor table is labelled
\* MONTHLY unless the brokerage's expiration-type code for it is R.
C8_MonthlyUnlessR ==
    (IsCall("_expirations") /\ call.args.weeklies) =>
        \A i \in 1..Len(call.val) :
            (call.val[i].type = "MONTHLY") <=> (CodeOf(call.val[i]) # "R")

\* C8 amended: the descriptor table built from the raw calls map has one row
\* per expiration, labelled MONTHLY if the brokerage's expiration-type code
\* for it is R and WEEKLY otherwise; without weeklies only the MONTHLY rows
\* stay.
C8_MonthlyIffR ==
    IsCall("_expirations") =>
        /\ call.args.weeklies => Len(call.val) = Len(chain.calls)
        /\ \A i \in 1..Len(call.val) :
              /\ call.val[i].type \in {"MONTHLY", "WEEKLY"}
              /\ (call.val[i].type = "MONTHLY") <=> (CodeOf(call.val[i]) = "R")
              /\ ~call.args.weeklies => call.val[i].type = "MONTHLY"
              /\ <<call.val[i].date, call.val[i].dte>> = KeyOfRow(call.val[i])

\* a table with both labels in it has been built
C8_Witness ==
    /\ IsCall("_expirations")
    /\ call.args.weeklies
    /\ \E i, j \in 1..Len(call.val) :
          /\ CodeOf(call.val[i]) = "R" /\ call.val[i].type = "MONTHLY"
          /\ CodeOf(call.val[j]) = "S" /\ call.val[j].type = "WEEKLY"

\* C9: the table build returns for in_the_money=false holds no row whose
\* in-the-money flag is true, and its rows are in non-decreasing order of
\* strike.
C9_BuildOutOfTheMoney ==
    (IsCall("build") /\ call.err = "none" /\ ~call.args.in_the_money) =>
        /\ \A i \in 1..Len(call.val) : call.val[i].in_the_money = FALSE
        /\ \A i \in 1..(Len(call.val) - 1) :
              call.val[i].strike <= call.val[i + 1].strike

\* an out-of-the-money table of calls and puts has been built from a chain
\* that lists in-the-money contracts
C9_Witness ==
    /\ IsCall("build") /\ call.err = "none" /\ ~call.args.in_the_money
    /\ \E i, j \in 1..Len(call.val) :
          call.val[i].option_type = "CALL" /\ call.val[j].option_type = "PUT"
    /\ \E e \in Range(chain.calls) : \E c \in Range(e.strikes) : c.inTheMoney
    /\ \E e \in Range(chain.puts) : \E c \in Range(e.strikes) : c.inTheMoney

(***************************************************************************)
(* Properties of the strangle builder and the expected-move calculator     *)
(* (checked under Spec).                                                   *)
(***************************************************************************)

RowsOf(table, type) == {r \in Range(table) : r.option_type = type}

\* the i-th lowest-strike call and the i-th highest-strike put of a table
\* whose calls, and whose puts, have distinct strikes
LowestCall(table, i) ==
    CHOOSE c \in RowsOf(table, "CALL") :
        Cardinality({o \in RowsOf(table, "CALL") : o.strike < c.strike}) = i - 1

HighestPut(table, i) ==
    CHOOSE q \in RowsOf(table, "PUT") :
        Cardinality({o \in RowsOf(table, "PUT") : o.strike > q.strike}) = i - 1

PairCount(table) ==
    Min(Cardinality(RowsOf(table, "CALL")), Cardinality(RowsOf(table, "PUT")))

\* twice the combined mid premium of the i-th pair: sum of bids + sum of asks
TwicePremium(table, i) ==
    LowestCall(table, i).bid + HighestPut(table, i).bid
      + LowestCall(table, i).ask + HighestPut(table, i).ask

PairQualifies(table, i, min_premium) ==
    /\ TwicePremium(table, i) >= 2 * min_premium
    /\ CoversExpectedMove(strangle, LowestCall(table, i).strike,
                          HighestPut(table, i).strike,
                          TwicePremium(table, i) \div 2)

SameOption(a, b) == [a EXCEPT !.index = 0] = [b EXCEPT !.index = 0]

\* C1: _build(min_premium) pairs the i-th lowest-strike call with the i-th
\* highest-strike put; a pair qualifies iff its combined mid premium is not
\* below min_premium and covers_expected_move holds for it; the result is
\* absent iff no pair qualifies, and otherwise it is the qualifying pair of
\* the largest index: its put, then its call.
C1_LastQualifyingPair ==
    IsCall("Strangle._build") =>
        LET table == strangle.option_chain
            good == {i \in 1..PairCount(table) :
                        PairQualifies(table, i, call.args.min_premium)}
            last == CHOOSE i \in good : \A j \in good : j <= i
        IN  /\ (call.val = <<>>) <=> (good = {})
            /\ good # {} =>
                  /\ Len(call.val) = 2
                  /\ SameOption(call.val[1], HighestPut(table, last))
                  /\ SameOption(call.val[2], LowestCall(table, last))

\* a search in which two pairs qualified and the farther one was returned,
\* at a premium below the nearer one's
C1_Witness ==
    /\ IsCall("Strangle._build")
    /\ PairCount(strangle.option_chain) >= 2
    /\ PairQualifies(strangle.option_chain, 1, call.args.min_premium)
    /\ PairQualifies(strangle.option_chain, 2, call.args.min_premium)
    /\ TwicePremium(strangle.option_chain, 2) < TwicePremium(strangle.option_chain, 1)
    /\ Len(call.val) = 2
    /\ SameOption(call.val[2], LowestCall(strangle.option_chain, 2))

\* a search that found nothing because every premium was below the minimum
C1_AbsentReached ==
    /\ IsCall("Strangle._build")
    /\ PairCount(strangle.option_chain) >= 1
    /\ \A i \in 1..PairCount(strangle.option_chain) :
          TwicePremium(strangle.option_chain, i) < 2 * call.args.min_premium
    /\ call.val = <<>>

\* a search that skipped a nearer pair and returned a farther one
C1_SkippedReached ==
    /\ IsCall("Strangle._build")
    /\ PairCount(strangle.option_chain) >= 2
    /\ ~PairQualifies(strangle.option_chain, 1, call.args.min_premium)
    /\ call.val # <<>>

\* C2: covers_expected_move is true iff call_strike + premium is above
\* underlying_price + expected_move and put_strike - premium is below
\* underlying_price - expected_move, both strictly: equality on either side,
\* or one side failing, gives false.
C2_CoversIffBothStrict ==
    IsCall("covers_expected_move") =>
        LET a == call.args
            top == strangle.underlying_price + strangle.expected_move
            bottom == strangle.underlying_price - strangle.expected_move
        IN  /\ call.val[1] <=> (/\ a.call_strike + a.premium > top
                                /\ a.put_strike - a.premium < bottom)
            /\ a.call_strike + a.premium = top => ~call.val[1]
            /\ a.put_strike - a.premium = bottom => ~call.val[1]
            /\ a.call_strike + a.premium < top => ~call.val[1]
            /\ a.put_strike - a.premium > bottom => ~call.val[1]

\* the upper break-even sits exactly on the band while the lower one clears
\* it, and the answer is false
C2_Witness ==
    /\ IsCall("covers_expected_move")
    /\ call.args.call_strike + call.args.premium
          = strangle.underlying_price + strangle.expected_move
    /\ call.args.put_strike - call.args.premium
          < strangle.underlying_price - strangle.expected_move
    /\ call.val = <<FALSE>>

C2_TrueReached ==
    /\ IsCall("covers_expected_move")
    /\ strangle.underlying_price = Dollars(100)
    /\ strangle.expected_move = Dollars(5)
    /\ call.args = [call_strike |-> Dollars(108), put_strike |-> Dollars(92),
                    premium |-> Dollars(2)]
    /\ call.val = <<TRUE>>

\* the distance of a row's strike from the underlying price a Straddle holds
Distance(r) == Abs(r.strike - straddle.underlying_price)

\* the first row in chain order with the smallest distance
FirstClosest(table) ==
    table[CHOOSE i \in 1..Len(table) :
             /\ \A j \in 1..Len(table) : Distance(table[i]) <= Distance(table[j])
             /\ \A j \in 1..(i - 1) : Distance(table[j]) > Distance(table[i])]

\* C3: on every table a Straddle works on, the table the Strangle builder
\* passes in after dropping the rows with missing values included, straddle
\* selection returns exactly the rows whose strike is the strike of the first
\* row in chain order with the smallest distance to the underlying price.
C3_ClosestStrikeRows ==
    (IsCall("Straddle._build") /\ straddle.option_chain # <<>>) =>
        /\ call.err = "none"
        /\ call.val = ResetIndex(Filter(straddle.option_chain,
               LAMBDA r : r.strike = FirstClosest(straddle.option_chain).strike))

\* C4: the expected move is 1.25 times the straddle's mid price, rounded to
\* the nearest cent, where mid = (sum of the straddle rows' bids + sum of
\* their asks) / 2; a call at 2.00/2.20 with a put at 1.80/2.00 gives 5.00.
C4_ExpectedMoveFormula ==
    (IsCall("expected_move") /\ call.err = "none") =>
        LET rows == StraddleBuild(straddle).val
            total == Sum(rows, "bid") + Sum(rows, "ask")
            move == call.val[1]
        IN  /\ move % Cents(1) = 0
            /\ Abs(8 * move - 5 * total) <= 8
            /\ ({<<r.option_type, r.bid, r.ask>> : r \in Range(rows)}
                  = {<<"CALL", Cents(200), Cents(220)>>,
                     <<"PUT", Cents(180), Cents(200)>>}
                /\ Len(rows) = 2)
               => move = Dollars(5)

\* the example has been computed
C4_Witness ==
    /\ IsCall("expected_move")
    /\ {<<r.option_type, r.bid, r.ask>> : r \in Range(StraddleBuild(straddle).val)}
          = {<<"CALL", Cents(200), Cents(220)>>, <<"PUT", Cents(180), Cents(200)>>}
    /\ call.val = <<Dollars(5)>>

\* a move that lies halfway between two cents has been rounded
C4_HalfwayReached ==
    /\ IsCall("expected_move") /\ call.err = "none"
    /\ Abs(8 * call.val[1] - 5 * (Sum(StraddleBuild(straddle).val, "bid")
                                   + Sum(StraddleBuild(straddle).val, "ask"))) = 8

\* C5: a Straddle constructed with a pre-built table sends no option-chain
\* request to the brokerage, so constructing a Strangle sends exactly one.
C5_NoRefetch ==
    /\ (IsCall("Straddle") /\ call.args.supplied) => call.fetches = 0
    /\ (IsCall("Strangle") /\ call.err = "none") => call.fetches = 1

\* C6: constructing a Straddle with no table succeeds, and the Straddle holds
\* the chain it built for the target dte: both option types, in-the-money
\* strikes and weeklies included, rows with a missing value dropped.
C6_BuildsItsOwnChain ==
    (IsCall("Straddle") /\ ~call.args.supplied) =>
        /\ call.err = "none"
        /\ straddle.alive
        /\ \A r \in Range(straddle.option_chain) : r.delta # NaN

\* C16: whenever a Strangle has been constructed from a raw chain in which
\* every strike lists one call and one put and the in-the-money flags agree
\* with the strike's side of the underlying price, the straddle its expected
\* move was computed from consists of a call and a put, both at the strike
\* of the chain closest to the underlying price.
C16_StraddleOfCallAndPut ==
    (IsCall("Strangle") /\ call.err = "none" /\ market.flagged = {}) =>
        LET rows == StraddleBuild(straddle).val
            away(s) == Abs(s - straddle.underlying_price)
        IN  \E i \in 1..NStrikes :
               /\ \A j \in 1..NStrikes : away(StrikeAt(i)) <= away(StrikeAt(j))
               /\ \A r \in Range(rows) : r.strike = StrikeAt(i)
               /\ {r.option_type : r \in Range(rows)} = Types

(***************************************************************************)
(* The order executor: a caller constructs an Executor and builds, places, *)
(* replaces and cancels orders, while requests may fail on the way.        *)
(***************************************************************************)

\* at most MaxRequests requests are sent
MaxRequests == 2

\* at most MaxLegs symbols make up an order
MaxLegs == 2

AccountIds == {"1001", "2002"}

OptionSymbols == <<"AAPL_091721C150", "AAPL_091721P140", "AAPL_091721C155">>

\* the symbol lists of an order: the first n symbols, n = 0..MaxLegs
SymbolLists == {SubSeq(OptionSymbols, 1, n) : n \in 0..Min(MaxLegs, Len(OptionSymbols))}

LimitPrices == {Cents(150)}

\* the numbers of contracts of an order, positive
Quantities == {1, 2}

OrderIds == {"7001", "7002"}

\* what may become of a request on its way
Outcomes == {"none", "ConnectionError"}

\* a slip: every leg sells to open
OptionLegOpening(to_open, symbol, qty) ==
    [instruction |-> "SELL_TO_OPEN",
     instrument  |-> [symbol |-> symbol, assetType |-> "OPTION"],
     quantity    |-> qty]

\* order_builder.add_option_leg(SELL_TO_OPEN if to_open else BUY_TO_CLOSE,
\* symbol, qty)
OptionLeg(to_open, symbol, qty) ==
    [instruction |-> IF to_open THEN "SELL_TO_OPEN" ELSE "BUY_TO_CLOSE",
     instrument  |-> [symbol |-> symbol, assetType |-> "OPTION"],
     quantity    |-> qty]

\* Executor.create_order_spec
CreateOrderSpec(symbols, price, qty, to_open) ==
    [orderType          |-> "LIMIT",
     price              |-> price,
     duration           |-> "DAY",
     session            |-> "NORMAL",
     orderLegCollection |-> [i \in 1..Len(symbols) |->
                                OptionLeg(to_open, symbols[i], qty)]]

\* one request to the brokerage; outcome is what becomes of it
Request(op, account_id, order_id, order_spec) ==
    [op |-> op, account_id |-> account_id, order_id |-> order_id,
     order_spec |-> order_spec]

NoOrderId == "none"

NoOrderSpec == [none |-> TRUE]

\* a slip: a failed request is sent once more
PlaceTradeAgain(self, symbols, price, qty, to_open, outcome) ==
    LET order_spec == CreateOrderSpec(symbols, price, qty, to_open)
        sent == Request("place_order", self.ACCOUNT_ID, NoOrderId, order_spec)
    IN  [err |-> outcome,
         sent |-> IF outcome = "none" THEN <<sent>> ELSE <<sent, sent>>]

\* Executor.place_trade: the outcome and the requests sent
PlaceTrade(self, symbols, price, qty, to_open, outcome) ==
    LET order_spec == CreateOrderSpec(symbols, price, qty, to_open)
    IN  [err  |-> outcome,
         sent |-> <<Request("place_order", self.ACCOUNT_ID, NoOrderId,
                            order_spec)>>]

\* Executor.replace_trade
ReplaceTrade(self, order_id, symbols, price, qty, to_open, outcome) ==
    LET order_spec == CreateOrderSpec(symbols, price, qty, to_open)
    IN  [err  |-> outcome,
         sent |-> <<Request("replace_order", self.ACCOUNT_ID, order_id,
                            order_spec)>>]

\* Executor.cancel_trade
CancelTrade(self, order_id, outcome) ==
    [err  |-> outcome,
     sent |-> <<Request("cancel_order", self.ACCOUNT_ID, order_id,
                        NoOrderSpec)>>]

\* the class attribute ACCOUNT_ID is read from the environment when the
\* class is defined
ClassAttributes(env) == [alive |-> FALSE, ACCOUNT_ID |-> env.TD_ACCOUNT_ID]

InitExecutor ==
    /\ market = CHOOSE m \in Markets :
                    /\ m.price = Dollars(100) /\ m.missing = {}
                    /\ \A t \in Types : m.base[t].bid = Cents(200)
    /\ token = "valid"
    /\ chain = NoObject
    /\ straddle = NoObject
    /\ strangle = NoObject
    /\ call = NoCall
    /\ log = <<>>
    /\ environ = [NoEnviron EXCEPT !.TD_ACCOUNT_ID = "1001"]
    /\ executor = ClassAttributes(environ)
    /\ requests = <<>>

\* Executor(): Broker.__init__ connects
NewExecutor ==
    /\ call = NoCall
    /\ ~executor.alive
    /\ \E login_ok \in BOOLEAN :
         LET c == Connect(token, login_ok)
         IN  /\ token' = c.token
             /\ executor' = IF c.err = "none"
                            THEN [executor EXCEPT !.alive = TRUE]
                            ELSE executor
             /\ call' = IF c.err # "none"
                        THEN Raised("Executor", NoArgs, c.err, 0)
                        ELSE Returned("Executor", NoArgs, <<>>, 0)
    /\ UNCHANGED <<market, chain, straddle, strangle, log, environ, requests>>

\* the environment variable is set to another account while the process runs
AccountIdReset ==
    /\ call = NoCall
    /\ \E a \in AccountIds \ {environ.TD_ACCOUNT_ID} :
         environ' = [environ EXCEPT !.TD_ACCOUNT_ID = a]
    /\ UNCHANGED <<market, token, chain, straddle, strangle, call, log,
                   executor, requests>>

\* executor.create_order_spec(symbols, price, qty, to_open)
CallCreateOrderSpec ==
    /\ call = NoCall
    /\ executor.alive
    /\ \E symbols \in SymbolLists, price \in LimitPrices, qty \in Quantities,
          to_open \in BOOLEAN :
         call' = Returned("create_order_spec",
                          [symbols |-> symbols, price |-> price, qty |-> qty,
                           to_open |-> to_open],
                          <<CreateOrderSpec(symbols, price, qty, to_open)>>, 0)
    /\ UNCHANGED <<market, token, chain, straddle, strangle, log, desk>>

\* the caller holds the outcome r of operation op and the requests r.sent
\* have gone out
Sent(op, args, r) ==
    /\ requests' = requests \o r.sent
    /\ call' = IF r.err # "none"
               THEN Raised(op, args, r.err, Len(r.sent))
               ELSE Returned(op, args, <<>>, Len(r.sent))

\* executor.place_trade(symbols, price, qty, to_open)
CallPlaceTrade ==
    /\ call = NoCall
    /\ executor.alive
    /\ Len(requests) < MaxRequests
    /\ \E symbols \in SymbolLists, price \in LimitPrices, qty \in Quantities,
          to_open \in BOOLEAN, outcome \in Outcomes :
         Sent("place_trade",
              [symbols |-> symbols, price |-> price, qty |-> qty,
               to_open |-> to_open],
              PlaceTrade(executor, symbols, price, qty, to_open, outcome))
    /\ UNCHANGED <<market, token, chain, straddle, strangle, log, environ,
                   executor>>

\* executor.replace_trade(order_id, symbols, price, qty, to_open)
CallReplaceTrade ==
    /\ call = NoCall
    /\ executor.alive
    /\ Len(requests) < MaxRequests
    /\ \E order_id \in OrderIds, symbols \in SymbolLists, price \in LimitPrices,
          qty \in Quantities, to_open \in BOOLEAN, outcome \in Outcomes :
         Sent("replace_trade",
              [order_id |-> order_id, symbols |-> symbols, price |-> price,
               qty |-> qty, to_open |-> to_open],
              ReplaceTrade(executor, order_id, symbols, price, qty, to_open,
                           outcome))
    /\ UNCHANGED <<market, token, chain, straddle, strangle, log, environ,
                   executor>>

\* executor.cancel_trade(order_id)
CallCancelTrade ==
    /\ call = NoCall
    /\ executor.alive
    /\ Len(requests) < MaxRequests
    /\ \E order_id \in OrderIds, outcome \in Outcomes :
         Sent("cancel_trade", [order_id |-> order_id],
              CancelTrade(executor, order_id, outcome))
    /\ UNCHANGED <<market, token, chain, straddle, strangle, log, environ,
                   executor>>

NextExecutor ==
    \/ NewExecutor
    \/ AccountIdReset
    \/ CallCreateOrderSpec
    \/ CallPlaceTrade
    \/ CallReplaceTrade
    \/ CallCancelTrade
    \/ Return

SpecExecutor == InitExecutor /\ [][NextExecutor]_vars

\* C11: for any symbols, price, quantity and to_open flag the order built by
\* create_order_spec is a limit, day, normal-session order at the given price
\* with exactly one leg per given symbol, in the order given, every leg
\* sell-to-open when to_open is true and buy-to-close otherwise, each for the
\* given quantity; building it sends no request to the brokerage.
C11_OrderSpec ==
    IsCall("create_order_spec") =>
        LET order == call.val[1]
            legs == order.orderLegCollection
            a == call.args
        IN  /\ call.err = "none"
            /\ order.orderType = "LIMIT"
            /\ order.duration = "DAY"
            /\ order.session = "NORMAL"
            /\ order.price = a.price
            /\ Len(legs) = Len(a.symbols)
            /\ \A i \in 1..Len(legs) :
                  /\ legs[i].instrument.symbol = a.symbols[i]
                  /\ legs[i].quantity = a.qty
                  /\ legs[i].instruction = IF a.to_open THEN "SELL_TO_OPEN"
                                           ELSE "BUY_TO_CLOSE"
            /\ call.fetches = 0

\* a closing order of two legs has been built after a trade was placed
C11_Witness ==
    /\ IsCall("create_order_spec")
    /\ ~call.args.to_open
    /\ Len(call.val[1].orderLegCollection) = 2
    /\ call.val[1].orderLegCollection[2].instruction = "BUY_TO_CLOSE"
    /\ Len(requests) > 0

\* the request a submission with the arguments a is to send
RequestOf(op, a) ==
    CASE op = "place_trade" ->
           Request("place_order", executor.ACCOUNT_ID, NoOrderId,
                   CreateOrderSpec(a.symbols, a.price, a.qty, a.to_open))
      [] op = "replace_trade" ->
           Request("replace_order", executor.ACCOUNT_ID, a.order_id,
                   CreateOrderSpec(a.symbols, a.price, a.qty, a.to_open))
      [] op = "cancel_trade" ->
           Request("cancel_order", executor.ACCOUNT_ID, a.order_id, NoOrderSpec)

Submissions == {"place_trade", "replace_trade", "cancel_trade"}

\* C12: in any sequence of place_trade, replace_trade and cancel_trade calls
\* each call sends exactly one request (place, replace of the given order_id,
\* cancel of the given order_id), always for the account the executor was
\* configured with; a failed request reaches the caller as the failure, with
\* nothing sent again; no call changes the executor, and nothing else sends
\* a request.
C12_OneRequestPerCall ==
    [][/\ (call = NoCall /\ call' # NoCall /\ call'.op \in Submissions) =>
             /\ requests' = Append(requests, RequestOf(call'.op, call'.args))
             /\ executor' = executor
             /\ call'.fetches = 1
             /\ \A i \in 1..Len(requests') :
                   requests'[i].account_id = executor.ACCOUNT_ID
       /\ (requests' # requests) =>
             (call = NoCall /\ call' # NoCall /\ call'.op \in Submissions)
       /\ (executor.alive => executor' = executor)]_vars

\* a replacement has failed after the environment named another account
C12_Witness ==
    /\ IsCall("replace_trade")
    /\ call.err = "ConnectionError"
    /\ Len(requests) = 2
    /\ requests[2].op = "replace_order"
    /\ requests[2].order_id = call.args.order_id
    /\ requests[2].account_id = executor.ACCOUNT_ID
    /\ environ.TD_ACCOUNT_ID # executor.ACCOUNT_ID

(***************************************************************************)
(* The earnings scanner.  Texts are sequences of characters; numbers read  *)
(* from them are fractions [num, den], so that no rounding is left out.    *)
(***************************************************************************)

Decimal == <<"0", "1", "2", "3", "4", "5", "6", "7", "8", "9">>

IsDigit(c) == \E i \in 1..Len(Decimal) : Decimal[i] = c

DigitValue(c) == (CHOOSE i \in 1..Len(Decimal) : Decimal[i] = c) - 1

RECURSIVE Pow10(_)
Pow10(n) == IF n = 0 THEN 1 ELSE 10 * Pow10(n - 1)

RECURSIVE DigitsValue(_)
DigitsValue(text) ==
    IF text = <<>> THEN 0
    ELSE 10 * DigitsValue(SubSeq(text, 1, Len(text) - 1))
           + DigitValue(text[Len(text)])

\* text.split(sep): the parts of text between the separators
RECURSIVE Split(_, _)
Split(text, sep) ==
    IF \A i \in 1..Len(text) : text[i] # sep THEN <<text>>
    ELSE LET at == CHOOSE i \in 1..Len(text) :
                      text[i] = sep /\ \A j \in 1..(i - 1) : text[j] # sep
         IN  <<SubSeq(text, 1, at - 1)>>
                \o Split(SubSeq(text, at + 1, Len(text)), sep)

\* float(text) of a decimal text, as a fraction
Float(text) ==
    LET parts == Split(text, ".")
        digits == IF Len(parts) = 2 THEN parts[1] \o parts[2] ELSE parts[1]
    IN  IF \/ Len(parts) > 2
           \/ digits = <<>>
           \/ \E i \in 1..Len(digits) : ~IsDigit(digits[i])
        THEN [err |-> "ValueError", val |-> <<>>]
        ELSE [err |-> "none",
              val |-> [num |-> DigitsValue(digits),
                       den |-> IF Len(parts) = 2 THEN Pow10(Len(parts[2])) ELSE 1]]

\* a > b for fractions
Gt(a, b) == a.num * b.den > b.num * a.den

Whole(n) == [num |-> n, den |-> 1]

\* the missing value in a column of texts
NaNText == <<NaN>>

\* m = {'K': 3, 'M': 6, 'B': 9, 'T': 12}
Exponent == [K |-> 3, M |-> 6, B |-> 9, T |-> 12]

\* float(i[:-1]) * 10**m[i[-1]] / 1_000_000_000 of one element i
InBillions(i) ==
    LET f == Float(SubSeq(i, 1, Len(i) - 1))
        suffix == i[Len(i)]
    IN  IF i = NaNText THEN [err |-> "TypeError", val |-> <<>>]
        ELSE IF f.err # "none" THEN f
        ELSE IF suffix \notin DOMAIN Exponent THEN [err |-> "KeyError", val |-> <<>>]
        ELSE [err |-> "none",
              val |-> IF Exponent[suffix] >= 9
                      THEN [num |-> f.val.num * Pow10(Exponent[suffix] - 9),
                            den |-> f.val.den]
                      ELSE [num |-> f.val.num,
                            den |-> f.val.den * Pow10(9 - Exponent[suffix])]]

\* Scanner._transform_market_caps: [err, val]; the list comprehension stops
\* at the first element that raises
TransformMarketCaps(market_caps) ==
    LET replaced == [i \in 1..Len(market_caps) |->
                        IF market_caps[i] = <<"-">> THEN NaNText
                        ELSE market_caps[i]]
        bad == {i \in 1..Len(replaced) : InBillions(replaced[i]).err # "none"}
    IN  IF bad # {}
        THEN InBillions(replaced[CHOOSE i \in bad : \A j \in bad : i <= j])
        ELSE [err |-> "none",
              val |-> [i \in 1..Len(replaced) |-> InBillions(replaced[i]).val]]

\* sort_values(by=['market_cap'], ascending=False): every ordering of the
\* rows by market cap descending (the default sort is not stable)
RECURSIVE SortedByMarketCap(_)
SortedByMarketCap(rows) ==
    IF rows = {} THEN {<<>>}
    ELSE LET most == {r \in rows : \A o \in rows : ~Gt(o.market_cap, r.market_cap)}
         IN  UNION {{<<r>> \o t : t \in SortedByMarketCap(rows \ {r})} : r \in most}

\* times[1].replace({'a': 'AMC', 'b': 'BMO'}) of one earnings-date cell
TimeOf(cell) ==
    LET times == Split(cell, "/")
    IN  IF Len(times) < 2 THEN <<>>
        ELSE IF times[2] = <<"a">> THEN <<"A", "M", "C">>
        ELSE IF times[2] = <<"b">> THEN <<"B", "M", "O">>
        ELSE times[2]

\* str.replace('%', '')
Strip(text, c) == Filter(text, LAMBDA x : x # c)

\* Scanner._clean_earnings: the set of results [err, val]; a row of earnings
\* is <<symbol, market_cap, price, change, time>>
CleanEarnings(earnings) ==
    LET n == Len(earnings)
        price == [i \in 1..n |-> Float(earnings[i][3])]
        change == [i \in 1..n |-> Float(Strip(earnings[i][4], "%"))]
        caps == TransformMarketCaps([i \in 1..n |-> earnings[i][2]])
        frame == [i \in 1..n |->
                    [symbol     |-> earnings[i][1],
                     market_cap |-> caps.val[i],
                     price      |-> price[i].val,
                     change     |-> [num |-> change[i].val.num,
                                     den |-> change[i].val.den * 100],
                     time       |-> TimeOf(earnings[i][5])]]
        amc == Filter(frame, LAMBDA r : r.time = <<"A", "M", "C">>)
        large == Filter(amc, LAMBDA r : Gt(r.market_cap, Whole(10)))
    IN  IF \E i \in 1..n : price[i].err # "none" \/ change[i].err # "none"
        THEN {[err |-> "ValueError", val |-> <<>>]}
        ELSE IF caps.err # "none" THEN {[err |-> caps.err, val |-> <<>>]}
        ELSE {[err |-> "none", val |-> t] : t \in SortedByMarketCap(Range(large))}

\* a slip: only the email is required
LoginDetailsEmailOnly(env) ==
    IF env.FINVIZ_EMAIL \in {Unset, ""}
    THEN [err |-> "Exception", val |-> <<>>]
    ELSE [err |-> "none",
          val |-> [email |-> env.FINVIZ_EMAIL, password |-> env.FINVIZ_PASSWORD,
                   remember |-> "true"]]

\* Scanner.login_details; os.environ.get gives None for a variable not set,
\* and not x holds for None and for the empty string
LoginDetails(env) ==
    IF env.FINVIZ_EMAIL \in {Unset, ""} \/ env.FINVIZ_PASSWORD \in {Unset, ""}
    THEN [err |-> "Exception", val |-> <<>>]
    ELSE [err |-> "none",
          val |-> [email |-> env.FINVIZ_EMAIL, password |-> env.FINVIZ_PASSWORD,
                   remember |-> "true"]]

\* the cells of a screener row: No., Ticker, Market Cap, Price, Change,
\* Earnings
cols == 6

\* [data[n + 1:n + cols] for n in range(0, len(data), cols)]
Grouped(data) ==
    [k \in 1..((Len(data) + cols - 1) \div cols) |->
        SubSeq(data, (k - 1) * cols + 2, Min(k * cols, Len(data)))]

Post(url, data) == [op |-> "POST", url |-> url, data |-> data, s |-> "none"]

Get(url, s) == [op |-> "GET", url |-> url, data |-> <<>>, s |-> s]

\* Scanner._get_earnings: [err, val, sent]; before and after are the cells
\* the screener serves for the two views, outcome is what becomes of the
\* login request
GetEarnings(env, before, after, outcome) ==
    LET login_details == LoginDetails(env)
        post == Post("login_submit.ashx", login_details.val)
    IN  IF login_details.err # "none"
        THEN [err |-> login_details.err, val |-> <<>>, sent |-> <<>>]
        ELSE IF outcome # "none"
        THEN [err |-> outcome, val |-> <<>>, sent |-> <<post>>]
        ELSE [err  |-> "none",
              val  |-> Grouped(before) \o Grouped(after),
              sent |-> <<post, Get("screener.ashx", "n_earningsbefore"),
                         Get("screener.ashx", "n_earningsafter")>>]

\* Scanner.earnings: the set of results [err, val, sent]
Earnings(env, before, after, outcome) ==
    LET got == GetEarnings(env, before, after, outcome)
    IN  IF got.err # "none" THEN {got}
        ELSE {[err |-> r.err, val |-> r.val, sent |-> got.sent] :
                r \in CleanEarnings(got.val)}

\* at most MaxRows rows are scraped
MaxRows == 2

Text5B == <<"5", "B">>
Text10B == <<"1", "0", "B">>
Text15B == <<"1", "5", "B">>
Text50B == <<"5", "0", "B">>
Text1042B == <<"1", "0", ".", "4", "2", "B">>
Text500M == <<"5", "0", "0", "M">>
Text21T == <<"2", ".", "1", "T">>

MarketCapTexts == {Text5B, Text10B, Text15B, Text50B, Text1042B, Text500M,
                   Text21T, <<"-">>}

EarningsTexts == {<<"O", "c", "t", " ", "2", "8", "/", "a">>,
                  <<"O", "c", "t", " ", "2", "8", "/", "b">>}

Tickers == <<"AAPL", "MSFT", "TSLA", "AMZN">>

\* the scraped rows: up to MaxRows rows, the k-th of the k-th ticker
ScrapedRows ==
    UNION {{[k \in 1..n |->
               <<Tickers[k], cap[k], <<"2", "0", ".", "5">>,
                 <<"1", ".", "5", "%">>, time[k]>>] :
            cap \in [1..n -> MarketCapTexts], time \in [1..n -> EarningsTexts]} :
           n \in 1..Min(MaxRows, Len(Tickers))}

\* the cells of a screener page that lists the given rows
RECURSIVE Cells(_)
Cells(rows) ==
    IF rows = <<>> THEN <<>>
    ELSE <<<<"1">>>> \o Head(rows) \o Cells(Tail(rows))

Credentials == {Unset, "", "secret"}

InitScanner ==
    /\ market = CHOOSE m \in Markets :
                    /\ m.price = Dollars(100) /\ m.missing = {}
                    /\ \A t \in Types : m.base[t].bid = Cents(200)
    /\ token = "valid"
    /\ chain = NoObject
    /\ straddle = NoObject
    /\ strangle = NoObject
    /\ call = NoCall
    /\ log = <<>>
    /\ environ \in {[NoEnviron EXCEPT !.FINVIZ_EMAIL = e, !.FINVIZ_PASSWORD = w] :
                      e, w \in Credentials}
    /\ executor = NoObject
    /\ requests = <<>>

\* scanner.login_details
CallLoginDetails ==
    /\ call = NoCall
    /\ LET r == LoginDetails(environ)
       IN  call' = IF r.err # "none"
                   THEN Raised("login_details", NoArgs, r.err, 0)
                   ELSE Returned("login_details", NoArgs, <<r.val>>, 0)
    /\ UNCHANGED <<market, token, chain, straddle, strangle, log, desk>>

\* scanner.earnings(), the screener listing the first rows under the
\* before-market view and the others under the after-market view; no call
\* is made once MaxRequests requests have been sent
CallEarnings ==
    /\ call = NoCall
    /\ Len(requests) < MaxRequests
    /\ \E rows \in ScrapedRows, outcome \in Outcomes :
         \E k \in 0..Len(rows) :
            \E r \in Earnings(environ, Cells(SubSeq(rows, 1, k)),
                              Cells(SubSeq(rows, k + 1, Len(rows))), outcome) :
               /\ requests' = requests \o r.sent
               /\ call' = IF r.err # "none"
                          THEN Raised("earnings", [earnings |-> rows], r.err,
                                      Len(r.sent))
                          ELSE Returned("earnings", [earnings |-> rows], r.val,
                                        Len(r.sent))
    /\ UNCHANGED <<market, token, chain, straddle, strangle, log, environ,
                   executor>>

\* scanner._clean_earnings(earnings)
CallCleanEarnings ==
    /\ call = NoCall
    /\ \E earnings \in ScrapedRows :
         \E r \in CleanEarnings(earnings) :
            call' = IF r.err # "none"
                    THEN Raised("_clean_earnings", [earnings |-> earnings],
                                r.err, 0)
                    ELSE Returned("_clean_earnings", [earnings |-> earnings],
                                  r.val, 0)
    /\ UNCHANGED <<market, token, chain, straddle, strangle, log, desk>>

\* scanner._transform_market_caps(market_caps)
CallTransformMarketCaps ==
    /\ call = NoCall
    /\ \E earnings \in ScrapedRows :
         LET market_caps == [i \in 1..Len(earnings) |-> earnings[i][2]]
             r == TransformMarketCaps(market_caps)
         IN  call' = IF r.err # "none"
                     THEN Raised("_transform_market_caps",
                                 [market_caps |-> market_caps], r.err, 0)
                     ELSE Returned("_transform_market_caps",
                                   [market_caps |-> market_caps], r.val, 0)
    /\ UNCHANGED <<market, token, chain, straddle, strangle, log, desk>>

\* a credential is set or unset in the environment between calls
CredentialChanged ==
    /\ call = NoCall
    /\ \E e, w \in Credentials :
         /\ <<e, w>> # <<environ.FINVIZ_EMAIL, environ.FINVIZ_PASSWORD>>
         /\ environ' = [environ EXCEPT !.FINVIZ_EMAIL = e, !.FINVIZ_PASSWORD = w]
    /\ UNCHANGED <<market, token, chain, straddle, strangle, call, log,
                   executor, requests>>

NextScanner ==
    \/ CallLoginDetails
    \/ CallEarnings
    \/ CallCleanEarnings
    \/ CallTransformMarketCaps
    \/ CredentialChanged
    \/ Return

SpecScanner == InitScanner /\ [][NextScanner]_vars

\* the market cap a scraped row states, in billions
StatedCap(row) == InBillions(row[2]).val

\* the scraped row reports after the close and states a market cap above 10
\* billion
Retained(row) ==
    /\ row[5][Len(row[5])] = "a"
    /\ row[2] # <<"-">>
    /\ Gt(StatedCap(row), Whole(10))

\* C13: for any scraped rows the earnings table retains exactly the rows
\* whose time is AMC and whose market cap in billions (suffix K/M/B/T scaled,
\* divided by 10^9) is strictly greater than 10, sorted by market cap
\* descending; a row whose market cap is the literal '-' is left out by the
\* filter and causes no failure.
C13_FilterAndSort ==
    IsCall("_clean_earnings") =>
        LET earnings == call.args.earnings
            kept == {i \in 1..Len(earnings) : Retained(earnings[i])}
        IN  /\ call.err = "none"
            /\ Len(call.val) = Cardinality(kept)
            /\ \A i \in kept : \E k \in 1..Len(call.val) :
                  /\ call.val[k].symbol = earnings[i][1]
                  /\ call.val[k].market_cap = StatedCap(earnings[i])
                  /\ call.val[k].time = <<"A", "M", "C">>
            /\ \A k \in 1..(Len(call.val) - 1) :
                  ~Gt(call.val[k + 1].market_cap, call.val[k].market_cap)

\* the same for the rows that state a market cap
C13_FilterAndSortOfStated ==
    (IsCall("_clean_earnings")
       /\ \A i \in 1..Len(call.args.earnings) :
             call.args.earnings[i][2] # <<"-">>)
      => C13_FilterAndSort

\* two rows have been retained and sorted
C13_SortedReached ==
    /\ IsCall("_clean_earnings") /\ call.err = "none"
    /\ Len(call.val) = 2
    /\ call.args.earnings[1][2] = Text15B
    /\ call.val[1].market_cap = [num |-> 21000, den |-> 10]

\* C14: when either screener credential is absent from the environment,
\* earnings() fails with the configuration error before any request, login
\* or screener query, is sent.
C14_FailsBeforeAnyRequest ==
    (IsCall("earnings")
       /\ (environ.FINVIZ_EMAIL = Unset \/ environ.FINVIZ_PASSWORD = Unset))
      => /\ call.err = "Exception"
         /\ call.fetches = 0

\* earnings() has failed for want of the password alone, after an earlier
\* call had sent its requests
C14_Witness ==
    /\ IsCall("earnings")
    /\ environ.FINVIZ_EMAIL = "secret" /\ environ.FINVIZ_PASSWORD = Unset
    /\ call.err = "Exception"
    /\ call.fetches = 0
    /\ Len(requests) > 0

(***************************************************************************)
(* The account reader: a caller constructs an Account and asks for the     *)
(* positions.                                                              *)
(***************************************************************************)

\* the characters of symbols, dates and strikes, in the order of their codes
Alphabet ==
    <<".", "0", "1", "2", "3", "4", "5", "6", "7", "8", "9",
      "A", "B", "C", "D", "E", "F", "G", "H", "I", "J", "K", "L", "M",
      "N", "O", "P", "Q", "R", "S", "T", "U", "V", "W", "X", "Y", "Z", "_">>

Ord(c) == CHOOSE i \in 1..Len(Alphabet) : Alphabet[i] = c

\* a < b for texts, as Python compares str
RECURSIVE TextLess(_, _)
TextLess(a, b) ==
    IF a = <<>> THEN b # <<>>
    ELSE IF b = <<>> THEN FALSE
    ELSE IF a[1] = b[1] THEN TextLess(Tail(a), Tail(b))
    ELSE Ord(a[1]) < Ord(b[1])

\* str.split with a character class: the parts of text between the
\* characters of seps
RECURSIVE SplitOn(_, _)
SplitOn(text, seps) ==
    IF \A i \in 1..Len(text) : text[i] \notin seps THEN <<text>>
    ELSE LET at == CHOOSE i \in 1..Len(text) :
                      text[i] \in seps /\ \A j \in 1..(i - 1) : text[j] \notin seps
         IN  <<SubSeq(text, 1, at - 1)>>
                \o SplitOn(SubSeq(text, at + 1, Len(text)), seps)

\* column k (from 0) of str.split(..., expand=True) for one text: the part,
\* or the missing value where the text is missing or has fewer parts
Part(text, seps, k) ==
    IF text = NaNText THEN NaNText
    ELSE IF Len(SplitOn(text, seps)) <= k THEN NaNText
    ELSE SplitOn(text, seps)[k + 1]

Months ==
    <<<<"J", "A", "N">>, <<"F", "E", "B">>, <<"M", "A", "R">>, <<"A", "P", "R">>,
      <<"M", "A", "Y">>, <<"J", "U", "N">>, <<"J", "U", "L">>, <<"A", "U", "G">>,
      <<"S", "E", "P">>, <<"O", "C", "T">>, <<"N", "O", "V">>, <<"D", "E", "C">>>>

\* strptime(dt, '%m%d%y').strftime('%d%b%y').upper() if dt else dt
Reformatted(dt) ==
    IF dt = NaNText THEN dt
    ELSE SubSeq(dt, 3, 4) \o Months[DigitsValue(SubSeq(dt, 1, 2))] \o SubSeq(dt, 5, 6)

\* the keys flatten gives to the fields of the instrument sub-object
Flat ==
    [assetType |-> "instrument_assetType", symbol |-> "instrument_symbol",
     putCall |-> "instrument_putCall",
     underlyingSymbol |-> "instrument_underlyingSymbol"]

\* utils.flatten of one position
Flatten(d) ==
    [k \in DOMAIN d \ {"instrument"} |-> d[k]]
      @@ [k \in {Flat[f] : f \in DOMAIN d.instrument} |->
            d.instrument[CHOOSE f \in DOMAIN d.instrument : Flat[f] = k]]

\* cols
Renamed ==
    [shortQuantity |-> "qty_short", longQuantity |-> "qty_long",
     averagePrice |-> "price", currentDayProfitLoss |-> "pal_day",
     instrument_assetType |-> "asset_type", instrument_symbol |-> "symbol",
     instrument_putCall |-> "option_type",
     instrument_underlyingSymbol |-> "underlying", marketValue |-> "value",
     maintenanceRequirement |-> "buying_power"]

\* a row of the positions frame before the sort
PositionRow(flat) ==
    LET cell(k) == IF k \in DOMAIN flat THEN flat[k] ELSE NaNText
        parsed == Part(Part(cell("instrument_symbol"), {"_"}, 1), {"C", "P"}, 0)
    IN  [underlying      |-> cell("instrument_underlyingSymbol"),
         asset_type      |-> cell("instrument_assetType"),
         symbol          |-> cell("instrument_symbol"),
         qty             |-> cell("longQuantity") - cell("shortQuantity"),
         option_type     |-> cell("instrument_putCall"),
         expiration_date |-> Reformatted(parsed),
         strike          |-> Part(Part(cell("instrument_symbol"), {"_"}, 1),
                                  {"C", "P"}, 1),
         price           |-> cell("averagePrice"),
         value           |-> cell("marketValue"),
         pal_day         |-> cell("currentDayProfitLoss"),
         buying_power    |-> cell("maintenanceRequirement")]

\* a comes before b in a column sorted ascending, missing values last
Before(a, b) == a # NaNText /\ (b = NaNText \/ TextLess(a, b))

\* row a sorts strictly before row b under
\* by=['expiration_date', 'underlying', 'strike'], ascending=[True, True, False]
RowBefore(a, b) ==
    \/ Before(a.expiration_date, b.expiration_date)
    \/ /\ a.expiration_date = b.expiration_date
       /\ \/ Before(a.underlying, b.underlying)
          \/ /\ a.underlying = b.underlying
             /\ a.strike # NaNText
             /\ (b.strike = NaNText \/ TextLess(b.strike, a.strike))

\* sort_values: every ordering of the rows (given by their positions) in
\* which no row comes after one it sorts before
RECURSIVE SortedPositions(_, _)
SortedPositions(rows, left) ==
    IF left = {} THEN {<<>>}
    ELSE LET first == {i \in left : \A j \in left : ~RowBefore(rows[j], rows[i])}
         IN  UNION {{<<rows[i]>> \o t : t \in SortedPositions(rows, left \ {i})} :
                      i \in first}

\* the columns returned, in order
ReturnedColumns ==
    {"underlying", "asset_type", "qty", "option_type", "expiration_date",
     "strike", "price", "value", "pal_day", "buying_power"}

\* Account.get_positions: the set of results [err, val, sent]; positions is
\* what the brokerage serves, outcome what becomes of the request
GetPositions(self, positions, outcome) ==
    LET sent == <<Request("get_account", self.ACCOUNT_ID, NoOrderId, NoOrderSpec)>>
        data == [i \in 1..Len(positions) |-> Flatten(positions[i])]
        columns == UNION {DOMAIN data[i] : i \in 1..Len(data)}
        frame == [i \in 1..Len(data) |-> PositionRow(data[i])]
        filled(r) == IF r.underlying = NaNText
                     THEN [r EXCEPT !.underlying = r.symbol] ELSE r
        shown(r) == [c \in ReturnedColumns |-> filled(r)[c]]
    IN  IF outcome # "none" THEN {[err |-> outcome, val |-> <<>>, sent |-> sent]}
        ELSE IF ~(DOMAIN Renamed \subseteq columns)
        THEN {[err |-> "KeyError", val |-> <<>>, sent |-> sent]}
        ELSE {[err |-> "none", val |-> [i \in 1..Len(t) |-> shown(t[i])],
               sent |-> sent] :
                t \in SortedPositions(frame, 1..Len(frame))}

\* at most MaxPositions positions are held
MaxPositions == 2

Underlyings == {<<"A", "A", "P", "L">>, <<"T">>}

ExpirationTexts == {<<"0", "9", "1", "7", "2", "1">>, <<"1", "0", "0", "1", "2", "1">>}

StrikeTexts == {<<"9", "5">>, <<"1", "5", "0">>}

OptionPosition(underlying, expiration, type, strike) ==
    [shortQuantity |-> 1, longQuantity |-> 0, averagePrice |-> Cents(150),
     currentDayProfitLoss |-> Cents(10), marketValue |-> Dollars(-150),
     maintenanceRequirement |-> Dollars(1000),
     instrument |-> [assetType |-> "OPTION",
                     symbol |-> underlying \o <<"_">> \o expiration
                                  \o <<IF type = "CALL" THEN "C" ELSE "P">> \o strike,
                     putCall |-> type,
                     underlyingSymbol |-> underlying]]

EquityPosition(symbol) ==
    [shortQuantity |-> 0, longQuantity |-> 100, averagePrice |-> Dollars(100),
     currentDayProfitLoss |-> Cents(10), marketValue |-> Dollars(10000),
     maintenanceRequirement |-> Dollars(3000),
     instrument |-> [assetType |-> "EQUITY", symbol |-> symbol]]

Positions ==
    {OptionPosition(u, e, t, k) :
        u \in Underlyings, e \in ExpirationTexts, t \in Types, k \in StrikeTexts}
      \cup {EquityPosition(u) : u \in Underlyings}

\* the positions an account may hold: up to MaxPositions positions of
\* different instruments
Holdings ==
    UNION {{h \in [1..n -> Positions] :
              \A i, j \in 1..n : i # j => h[i].instrument.symbol # h[j].instrument.symbol} :
           n \in 1..MaxPositions}

InitAccount ==
    /\ market = CHOOSE m \in Markets :
                    /\ m.price = Dollars(100) /\ m.missing = {}
                    /\ \A t \in Types : m.base[t].bid = Cents(200)
    /\ token = "valid"
    /\ chain = NoObject
    /\ straddle = NoObject
    /\ strangle = NoObject
    /\ call = NoCall
    /\ log = <<>>
    /\ environ = [NoEnviron EXCEPT !.TD_ACCOUNT_ID = "1001"]
    /\ executor = ClassAttributes(environ)
    /\ requests = <<>>

\* Account(): Broker.__init__ connects
NewAccount ==
    /\ call = NoCall
    /\ ~executor.alive
    /\ \E login_ok \in BOOLEAN :
         LET c == Connect(token, login_ok)
         IN  /\ token' = c.token
             /\ executor' = IF c.err = "none"
                            THEN [executor EXCEPT !.alive = TRUE]
                            ELSE executor
             /\ call' = IF c.err # "none"
                        THEN Raised("Account", NoArgs, c.err, 0)
                        ELSE Returned("Account", NoArgs, <<>>, 0)
    /\ UNCHANGED <<market, chain, straddle, strangle, log, environ, requests>>

\* account.get_positions(), the brokerage serving the given positions
CallGetPositions ==
    /\ call = NoCall
    /\ executor.alive
    /\ Len(requests) < MaxRequests
    /\ \E positions \in Holdings, outcome \in Outcomes :
         \E r \in GetPositions(executor, positions, outcome) :
            /\ requests' = requests \o r.sent
            /\ call' = IF r.err # "none"
                       THEN Raised("get_positions", [positions |-> positions],
                                   r.err, Len(r.sent))
                       ELSE Returned("get_positions", [positions |-> positions],
                                     r.val, Len(r.sent))
    /\ UNCHANGED <<market, token, chain, straddle, strangle, log, environ,
                   executor>>

NextAccount ==
    \/ NewAccount
    \/ CallGetPositions
    \/ Return

SpecAccount == InitAccount /\ [][NextAccount]_vars

\* the day a returned expiration text DDMONYY names, as a number YYMMDD; a
\* missing expiration comes after every day
DayOf(text) ==
    IF text = NaNText THEN 1000000
    ELSE DigitsValue(SubSeq(text, 6, 7)) * 10000
           + (CHOOSE m \in 1..Len(Months) : Months[m] = SubSeq(text, 3, 5)) * 100
           + DigitsValue(SubSeq(text, 1, 2))

\* the number a returned strike text states
StrikeOf(text) == Float(text).val

\* row a may stand right before row b: expiration ascending as dates, then
\* underlying ascending, then strike descending as numbers
InOrder(a, b) ==
    \/ DayOf(a.expiration_date) < DayOf(b.expiration_date)
    \/ /\ DayOf(a.expiration_date) = DayOf(b.expiration_date)
       /\ \/ TextLess(a.underlying, b.underlying)
          \/ /\ a.underlying = b.underlying
             /\ \/ a.strike = NaNText \/ b.strike = NaNText
                \/ ~Gt(StrikeOf(b.strike), StrikeOf(a.strike))

\* C15: for any held positions, option and equity rows mixed, the rows
\* get_positions returns are ordered by expiration ascending as dates, then
\* by the returned underlying ascending, then by strike descending as
\* numbers, and every equity row's underlying is the position's own symbol.
C15_PositionsOrdered ==
    (IsCall("get_positions") /\ call.err = "none") =>
        /\ \A k \in 1..(Len(call.val) - 1) : InOrder(call.val[k], call.val[k + 1])
        /\ \A k \in 1..Len(call.val) :
              call.val[k].asset_type = "EQUITY" =>
                 \E i \in 1..Len(call.args.positions) :
                    /\ call.args.positions[i].instrument.assetType = "EQUITY"
                    /\ call.args.positions[i].instrument.symbol
                          = call.val[k].underlying

====
